---------------------------- MODULE Spec2Model ----------------------------
(***************************************************************************)
(* PowerDNS exporter: the metric catalog, the response-time histogram      *)
(* builder and the Collect / scrape / collectMetrics cycle of Exporter.    *)
(*                                                                         *)
(* Representation of Go values:                                            *)
(*   - raw statistics values (float64 parsed from the API) are naturals;   *)
(*   - a gauge value is a record [num, den] standing for num / den, so     *)
(*     that the microsecond -> second conversion is exact;                 *)
(*   - histogram thresholds (float64 seconds) are written in milliseconds  *)
(*     (.001 -> 1, .01 -> 10, .1 -> 100, 1 -> 1000, 0 -> 0);               *)
(*   - a Go map is a TLA+ function, a nil/empty map is <<>>.               *)
(***************************************************************************)
EXTENDS Integers, Sequences, FiniteSets, Bags, TLC

\* ------------------------------------------------------------------ bounds
\* Number of Collect calls that may be in flight at the same time.
NumCycles == 2
\* Total number of Collect calls started in one behaviour.
MaxScrapes == 2
\* Longest run of consecutive statistics the API response may lack.
MaxMissing == 2
\* Largest raw count of a response-time slot in the histogram inputs.
MaxCount == 2

Cycles == 1..NumCycles
NoCycle == 0

\* --------------------------------------------------------- metric catalog
rTimeBucketMap ==
    ("answers0-1" :> 1) @@ ("answers1-10" :> 10) @@ ("answers10-100" :> 100)
    @@ ("answers100-1000" :> 1000) @@ ("answers-slow" :> 0)

\* The label map of the response-time slots without the slot answers-slow.
rTimeLabelMapNoSlow ==
    ("answers0-1" :> "0_1ms") @@ ("answers1-10" :> "1_10ms")
    @@ ("answers10-100" :> "10_100ms") @@ ("answers100-1000" :> "100_1000ms")

rTimeLabelMap ==
    ("answers0-1" :> "0_1ms") @@ ("answers1-10" :> "1_10ms")
    @@ ("answers10-100" :> "10_100ms") @@ ("answers100-1000" :> "100_1000ms")
    @@ ("answers-slow" :> "over_1000ms")

rCodeLabelMap ==
    ("servfail-answers" :> "servfail") @@ ("nxdomain-answers" :> "nxdomain")
    @@ ("noerror-answers" :> "noerror")

exceptionsLabelMap ==
    ("resource-limits" :> "resource_limit")
    @@ ("over-capacity-drops" :> "over_capacity_drop")
    @@ ("unreachables" :> "ns_unreachable")
    @@ ("outgoing-timeouts" :> "outgoing_timeout")

gaugeDefinition(id, name, key) == [id |-> id, name |-> name, key |-> key]

counterDefinition(id, name, label, labelMap) ==
    [id |-> id, name |-> name, label |-> label, labelMap |-> labelMap]

recursorGaugeDefs == <<
    gaugeDefinition(1, "latency_average_seconds", "qa_latency"),
    gaugeDefinition(2, "concurrent_queries", "concurrent_queries"),
    gaugeDefinition(3, "cache_size", "cache_entries") >>

recursorCounterDefs == <<
    counterDefinition(1, "incoming_queries_total", "net",
        ("questions" :> "udp") @@ ("tcp-questions" :> "tcp")),
    counterDefinition(2, "outgoing_queries_total", "net",
        ("all-outqueries" :> "udp") @@ ("tcp-outqueries" :> "tcp")),
    counterDefinition(3, "cache_lookups_total", "result",
        ("cache-hits" :> "hit") @@ ("cache-misses" :> "miss")),
    counterDefinition(4, "answers_rcodes_total", "rcode", rCodeLabelMap),
    counterDefinition(5, "answers_rtime_total", "timeslot", rTimeLabelMap),
    counterDefinition(6, "exceptions_total", "error", exceptionsLabelMap) >>

authoritativeGaugeDefs == <<
    gaugeDefinition(6, "security_status", "security-status"),
    gaugeDefinition(1, "latency_average_seconds", "latency"),
    gaugeDefinition(2, "packet_cache_size", "packetcache-size"),
    gaugeDefinition(3, "signature_cache_size", "signature-cache-size"),
    gaugeDefinition(4, "key_cache_size", "key-cache-size"),
    gaugeDefinition(5, "metadata_cache_size", "meta-cache-size"),
    gaugeDefinition(6, "qsize", "qsize-q") >>

authoritativeCounterDefs == <<
    counterDefinition(1, "incoming_notifications", "type", <<>>),
    counterDefinition(2, "uptime", "type", ("uptime" :> "seconds")),
    counterDefinition(3, "dnssec", "type",
        ("signatures" :> "signatures_created")
        @@ ("udp-do-queries" :> "ok_queries_recv")),
    counterDefinition(4, "packet_cache_lookup", "result",
        ("packetcache-hit" :> "hit") @@ ("packetcache-miss" :> "miss")),
    counterDefinition(5, "query_cache_lookup", "result",
        ("query-cache-hit" :> "hit") @@ ("query-cache-miss" :> "miss")),
    counterDefinition(6, "deferred_cache_actions", "type",
        ("deferred-cache-inserts" :> "inserts")
        @@ ("deferred-cache-lookup" :> "lookups")),
    counterDefinition(7, "dnsupdate_queries_total", "status",
        ("dnsupdate-answers" :> "answered") @@ ("dnsupdate-changes" :> "applied")
        @@ ("dnsupdate-queries" :> "requested")
        @@ ("dnsupdate-refused" :> "refused")),
    counterDefinition(8, "recursive_queries_total", "status",
        ("rd-queries" :> "requested") @@ ("recursing-questions" :> "processed")
        @@ ("recursing-answers" :> "answered")
        @@ ("recursion-unanswered" :> "unanswered")),
    counterDefinition(9, "queries_total", "proto",
        ("tcp-queries" :> "tcp") @@ ("tcp4-queries" :> "tcp4")
        @@ ("tcp6-queries" :> "tcp6") @@ ("udp-queries" :> "udp")
        @@ ("udp4-queries" :> "udp4") @@ ("udp6-queries" :> "udp6")),
    counterDefinition(10, "answers_total", "proto",
        ("tcp-answers" :> "tcp") @@ ("tcp4-answers" :> "tcp4")
        @@ ("tcp6-answers" :> "tcp6") @@ ("udp-answers" :> "udp")
        @@ ("udp4-answers" :> "udp4") @@ ("udp6-answers" :> "udp6")),
    counterDefinition(11, "answers_bytes_total", "proto",
        ("tcp-answers-bytes" :> "tcp") @@ ("tcp4-answers-bytes" :> "tcp4")
        @@ ("tcp6-answers-bytes" :> "tcp6") @@ ("udp-answers-bytes" :> "udp")
        @@ ("udp4-answers-bytes" :> "udp4") @@ ("udp6-answers-bytes" :> "udp6")),
    counterDefinition(12, "exceptions_total", "error",
        ("servfail-packets" :> "servfail") @@ ("timedout-packets" :> "timeout")
        @@ ("corrupt-packets" :> "corrupt_packets")
        @@ ("overload-drops" :> "backend_overload")
        @@ ("udp-recvbuf-errors" :> "recvbuf_errors")
        @@ ("udp-sndbuf-errors" :> "sndbuf_errors")
        @@ ("udp-in-errors" :> "udo_in_errors")
        @@ ("udp-noport-errors" :> "udp_noport_errors")),
    counterDefinition(13, "cpu_utilisation", "type",
        ("sys-msec" :> "sys") @@ ("user-msec" :> "user")) >>

dnsdistGaugeDefs == << >>

dnsdistCounterDefs == << >>

\* The daemon_type strings NewExporter may be given; "unknown" stands for any
\* string the switch of NewExporter has no case for.
ServerTypes == {"recursor", "authoritative", "dnsdist", "unknown"}

\* NewExporter: the switch on serverType selecting the definition tables.
GaugeDefsOf(t) ==
    CASE t = "recursor" -> recursorGaugeDefs
      [] t = "authoritative" -> authoritativeGaugeDefs
      [] t = "dnsdist" -> dnsdistGaugeDefs
      [] OTHER -> << >>

CounterDefsOf(t) ==
    CASE t = "recursor" -> recursorCounterDefs
      [] t = "authoritative" -> authoritativeCounterDefs
      [] t = "dnsdist" -> dnsdistCounterDefs
      [] OTHER -> << >>

\* NewExporter: gaugeMetrics[def.id] = newGaugeMetric(...), one entry per id.
GaugeIds(t) == { GaugeDefsOf(t)[i].id : i \in 1..Len(GaugeDefsOf(t)) }


\* ------------------------------------------------- statistics API responses
\* The names of the StatsEntry records a statistics response lists, in the
\* order of the response: every raw key a definition table or the histogram
\* reads.
recursorStatsNames == <<
    "qa_latency", "concurrent_queries", "cache_entries",
    "questions", "tcp-questions", "all-outqueries", "tcp-outqueries",
    "cache-hits", "cache-misses",
    "servfail-answers", "nxdomain-answers", "noerror-answers",
    "answers0-1", "answers1-10", "answers10-100", "answers100-1000",
    "answers-slow",
    "resource-limits", "over-capacity-drops", "unreachables",
    "outgoing-timeouts" >>

authoritativeStatsNames == <<
    "security-status", "latency", "packetcache-size", "signature-cache-size",
    "key-cache-size", "meta-cache-size", "qsize-q",
    "uptime", "signatures", "udp-do-queries",
    "packetcache-hit", "packetcache-miss", "query-cache-hit",
    "query-cache-miss", "deferred-cache-inserts", "deferred-cache-lookup",
    "dnsupdate-answers", "dnsupdate-changes", "dnsupdate-queries",
    "dnsupdate-refused",
    "rd-queries", "recursing-questions", "recursing-answers",
    "recursion-unanswered",
    "tcp-queries", "tcp4-queries", "tcp6-queries", "udp-queries",
    "udp4-queries", "udp6-queries",
    "tcp-answers", "tcp4-answers", "tcp6-answers", "udp-answers",
    "udp4-answers", "udp6-answers",
    "tcp-answers-bytes", "tcp4-answers-bytes", "tcp6-answers-bytes",
    "udp-answers-bytes", "udp4-answers-bytes", "udp6-answers-bytes",
    "servfail-packets", "timedout-packets", "corrupt-packets",
    "overload-drops", "udp-recvbuf-errors", "udp-sndbuf-errors",
    "udp-in-errors", "udp-noport-errors",
    "sys-msec", "user-msec",
    "answers0-1", "answers1-10", "answers10-100", "answers100-1000",
    "answers-slow" >>

otherStatsNames == <<
    "uptime", "answers0-1", "answers1-10", "answers10-100",
    "answers100-1000", "answers-slow" >>

StatsNames(t) ==
    CASE t = "recursor" -> recursorStatsNames
      [] t = "authoritative" -> authoritativeStatsNames
      [] OTHER -> otherStatsNames

\* One StatsEntry of a response (Name and Value; Kind is never read).
StatsEntry(name, value) == [name |-> name, value |-> value]

\* The response to the s-th Collect call lacking the len names from position
\* lo on. The value of the i-th name is i * s: no two names share a value and
\* the statistics grow from one call to the next.
StatsResponse(t, lo, len, s) ==
    LET names == StatsNames(t)
    IN  [ i \in 1..(Len(names) - len) |->
            LET j == IF i < lo THEN i ELSE i + len
            IN  StatsEntry(names[j], j * s) ]

\* The decoded statistics lists getJSON may hand to scrape at the s-th call:
\* every response lacking a run of at most maxMissing names, and the empty
\* list.
StatsResponses(t, maxMissing, s) ==
    { StatsResponse(t, lo, len, s) :
        lo \in 1..Len(StatsNames(t)), len \in 0..maxMissing }
    \cup { << >> }

\* The statistics lists getJSON may return whole or empty, by variant and
\* Collect call.
WholeInputs ==
    [ t \in ServerTypes |->
        [ s \in 1..MaxScrapes |-> StatsResponses(t, 0, s) ] ]

\* The statistics lists getJSON may return lacking up to MaxMissing names, by
\* variant and Collect call.
StatsInputs ==
    [ t \in ServerTypes |->
        [ s \in 1..MaxScrapes |-> StatsResponses(t, MaxMissing, s) ] ]

\* The names of the five response-time slots, in the order of a response.
rTimeStatsNames == <<
    "answers0-1", "answers1-10", "answers10-100", "answers100-1000",
    "answers-slow" >>

IsListed(entry) == entry.value >= 0

\* The statistics lists made of response-time slots only: each slot is
\* absent or carries any count up to maxCount.
RTimeResponses(maxCount) ==
    LET counts == (-1)..maxCount
        n(i) == rTimeStatsNames[i]
    IN  { SelectSeq(<< StatsEntry(n(1), a), StatsEntry(n(2), b),
                       StatsEntry(n(3), c), StatsEntry(n(4), d),
                       StatsEntry(n(5), e) >>, IsListed) :
            a \in counts, b \in counts, c \in counts, d \in counts, e \in counts }

\* The statistics lists of response-time slots with counts up to MaxCount.
RTimeInputs == RTimeResponses(MaxCount)

\* ----------------------------------------------------------- observations
\* A prometheus.Metric sent on the Collect channel.
Metric(kind, name, label, value, buckets, count) ==
    [kind |-> kind, name |-> name, label |-> label, value |-> value,
     buckets |-> buckets, count |-> count]

upMetric == Metric("gauge", "up", "", 0, << >>, 0)

totalScrapesMetric == Metric("counter", "exporter_total_scrapes", "", 0, << >>, 0)

jsonParseFailuresMetric ==
    Metric("counter", "exporter_json_parse_failures", "", 0, << >>, 0)

\* --------------------------------------------------------- collectMetrics
\* statsMap := make(map[string]float64), then statsMap[s.Name] = s.Value for
\* the first n entries of the list in turn: a later entry replaces an earlier
\* one of the same name.
RECURSIVE StatsMapOfFirst(_, _)
StatsMapOfFirst(stats, n) ==
    IF n = 0 THEN << >>
    ELSE (stats[n].name :> stats[n].value) @@ StatsMapOfFirst(stats, n - 1)

\* The statsMap collectMetrics builds from the whole list.
StatsMapOf(stats) == StatsMapOfFirst(stats, Len(stats))

\* A statsMap that records nothing is never taken for an empty one.
StatsMapNeverEmpty(sm) == FALSE

\* len(statsMap) == 0
IsEmptyStatsMap(sm) == DOMAIN sm = {}

\* The suffix test taken for an equality test.
HasSuffixLatencyExact(key) == key = "latency"

\* strings.HasSuffix(key, "latency"): of the keys of the definition tables
\* and responses, the ones ending in "latency".
HasSuffixLatency(key) == key \in {"qa_latency", "latency"}

\* The value a gauge is Set to: microseconds to seconds for latency keys.
GaugeValue(key, value) ==
    IF HasSuffixLatency(key)
    THEN [num |-> value, den |-> 1000000]
    ELSE [num |-> value, den |-> 1]

\* The gauge loop giving up at the first definition whose key is missing.
RECURSIVE GaugeLoopStops(_, _, _, _, _)
GaugeLoopStops(defs, i, sm, gm, fails) ==
    IF i > Len(defs) THEN [gauges |-> gm, fails |-> fails]
    ELSE IF defs[i].key \in DOMAIN sm
         THEN GaugeLoopStops(defs, i + 1, sm,
                  [gm EXCEPT ![defs[i].id] = GaugeValue(defs[i].key, sm[defs[i].key])],
                  fails)
         ELSE [gauges |-> gm, fails |-> fails + 1]

\* The loop over e.gaugeDefs: gm is e.gaugeMetrics (id -> value), fails the
\* number of jsonParseFailures.Inc() calls so far.
RECURSIVE GaugeLoop(_, _, _, _, _)
GaugeLoop(defs, i, sm, gm, fails) ==
    IF i > Len(defs) THEN [gauges |-> gm, fails |-> fails]
    ELSE IF defs[i].key \in DOMAIN sm
         THEN GaugeLoop(defs, i + 1, sm,
                  [gm EXCEPT ![defs[i].id] = GaugeValue(defs[i].key, sm[defs[i].key])],
                  fails)
         ELSE GaugeLoop(defs, i + 1, sm, gm, fails + 1)

\* NewExporter: counterMetrics[def.id] = NewDesc(def.name) for every
\* definition in turn: each id is mapped to the descriptor of the last
\* definition carrying it.
NewCounterMetrics(defs) ==
    << >> @@
    [ id \in { defs[i].id : i \in DOMAIN defs } |->
        LET at == { i \in DOMAIN defs : defs[i].id = id }
            last == CHOOSE i \in at : \A j \in at : j <= i
        IN  defs[last].name ]

\* NewExporter: gaugeMetrics[def.id] = newGaugeMetric(def.name) for every
\* definition in turn; the descriptor of each gauge instance, by id.
NewGaugeDescs(defs) ==
    << >> @@
    [ id \in { defs[i].id : i \in DOMAIN defs } |->
        LET at == { i \in DOMAIN defs : defs[i].id = id }
            last == CHOOSE i \in at : \A j \in at : j <= i
        IN  defs[last].name ]

\* Describe of an exporter of type t: the descriptors of e.counterMetrics, of
\* the gauges of e.gaugeMetrics, of up, totalScrapes and jsonParseFailures.
Describe(t) ==
    LET cm == NewCounterMetrics(CounterDefsOf(t))
        gm == NewGaugeDescs(GaugeDefsOf(t))
    IN  { cm[id] : id \in DOMAIN cm }
        \cup { gm[id] : id \in DOMAIN gm }
        \cup { upMetric.name, totalScrapesMetric.name,
               jsonParseFailuresMetric.name }

\* The series MustNewConstMetric builds for entry key of definition def, cm
\* being e.counterMetrics.
CounterSeries(cm, def, key, sm) ==
    Metric("counter", cm[def.id], def.labelMap[key], sm[key], << >>, 0)

\* The inner loop giving up on the whole definition when one key is missing.
LabelMapFoundAborts(def, sm) ==
    IF DOMAIN def.labelMap \subseteq DOMAIN sm THEN DOMAIN def.labelMap ELSE {}

\* The inner loop over def.labelMap, whose iterations are independent and in
\* Go's unspecified map order: the keys found in statsMap.
LabelMapFound(def, sm) == { key \in DOMAIN def.labelMap : key \in DOMAIN sm }

\* The bag of series the inner loop puts on the channel for definition def:
\* one copy for each key found, keys of equal label and value giving copies
\* of one series.
LabelMapSent(cm, def, sm) ==
    LET found  == LabelMapFound(def, sm)
        series == { CounterSeries(cm, def, key, sm) : key \in found }
    IN  IF Cardinality(series) = Cardinality(found)
        THEN SetToBag(series)
        ELSE [ m \in series |->
                 Cardinality({ key \in found : CounterSeries(cm, def, key, sm) = m }) ]

\* The number of jsonParseFailures.Inc() calls of the inner loop.
LabelMapFails(def, sm) ==
    Cardinality(DOMAIN def.labelMap \ LabelMapFound(def, sm))

\* The loop over e.counterDefs.
RECURSIVE CounterLoop(_, _, _, _, _, _)
CounterLoop(defs, cm, d, sm, sent, fails) ==
    IF d > Len(defs) THEN [sent |-> sent, fails |-> fails]
    ELSE CounterLoop(defs, cm, d + 1, sm, sent (+) LabelMapSent(cm, defs[d], sm),
                     fails + LabelMapFails(defs[d], sm))

\* ------------------------------------------------------ histogram builder
\* uint64(value) of a float64 holding a natural number.
Uint64(value) == value

\* The loop over rTimeBucketMap passing over a missing key instead of failing.
RECURSIVE RTimeLinearSkips(_, _, _, _)
RTimeLinearSkips(keys, sm, buckets, count) ==
    IF keys = {} THEN [err |-> FALSE, buckets |-> buckets, count |-> count]
    ELSE LET k == CHOOSE x \in keys : TRUE
             v == rTimeBucketMap[k]
             n == IF k \in DOMAIN sm THEN sm[k] ELSE 0
         IN  RTimeLinearSkips(keys \ {k}, sm,
                 IF v # 0 THEN (v :> n) @@ buckets ELSE buckets, count + n)

\* The loop over rTimeBucketMap: fails at a missing key, else collects the
\* linear buckets of the non-zero thresholds and the total count.
RECURSIVE RTimeLinear(_, _, _, _)
RTimeLinear(keys, sm, buckets, count) ==
    IF keys = {} THEN [err |-> FALSE, buckets |-> buckets, count |-> count]
    ELSE LET k == CHOOSE x \in keys : TRUE
             v == rTimeBucketMap[k]
         IN  IF k \notin DOMAIN sm
             THEN [err |-> TRUE, buckets |-> << >>, count |-> 0]
             ELSE RTimeLinear(keys \ {k}, sm,
                      IF v # 0 THEN (v :> Uint64(sm[k])) @@ buckets ELSE buckets,
                      count + Uint64(sm[k]))

\* sort.Float64s(keys)
RECURSIVE SortFloat64s(_)
SortFloat64s(S) ==
    IF S = {} THEN << >>
    ELSE LET m == CHOOSE x \in S : \A y \in S : x <= y
         IN  <<m>> \o SortFloat64s(S \ {m})

\* The buckets left linear.
CumulateNot(keys, i, buckets, cumsum) == buckets

\* Convert linear buckets to cumulative buckets.
RECURSIVE Cumulate(_, _, _, _)
Cumulate(keys, i, buckets, cumsum) ==
    IF i > Len(keys) THEN buckets
    ELSE Cumulate(keys, i + 1,
             [buckets EXCEPT ![keys[i]] = cumsum + buckets[keys[i]]],
             cumsum + buckets[keys[i]])

\* makeRecursorRTimeHistogram: [err, h].
makeRecursorRTimeHistogram(sm) ==
    LET lin == RTimeLinear(DOMAIN rTimeBucketMap, sm, << >>, 0)
    IN  IF lin.err THEN [err |-> TRUE, h |-> upMetric]
        ELSE [err |-> FALSE,
              h |-> Metric("histogram", "response_time_seconds", "", 0,
                        Cumulate(SortFloat64s(DOMAIN lin.buckets), 1, lin.buckets, 0),
                        lin.count)]

\* ------------------------------------------------------------------ state
VARIABLES
    serverType,         \* Exporter.ServerType, fixed by NewExporter
    mutex,              \* Exporter.mutex: the cycle holding it, or NoCycle
    up,                 \* Exporter.up
    totalScrapes,       \* Exporter.totalScrapes
    jsonParseFailures,  \* Exporter.jsonParseFailures
    gaugeMetrics,       \* Exporter.gaugeMetrics: id -> value of the gauge
    cpc,                \* position of each Collect call
    spc,                \* position of each scrape goroutine
    err,                \* scrape: whether getJSON returned an error
    data,               \* scrape: the decoded []StatsEntry
    jsonStats,          \* the cycle's jsonStats channel: "open" or "closed"
    statsMap,           \* collectMetrics: the cycle's statsMap
    ch,                 \* the bag of metrics the cycle sent on ch
    cycleFailures,      \* jsonParseFailures.Inc() calls made by the cycle
    started             \* number of Collect calls started so far

vars == << serverType, mutex, up, totalScrapes, jsonParseFailures, gaugeMetrics,
           cpc, spc, err, data, jsonStats, statsMap, ch, cycleFailures, started >>

shared == << up, totalScrapes, jsonParseFailures, gaugeMetrics >>

\* NewExporter, for every daemon type main may pass it.
Init ==
    /\ serverType \in ServerTypes
    /\ mutex = NoCycle
    /\ up = 0
    /\ totalScrapes = 0
    /\ jsonParseFailures = 0
    /\ gaugeMetrics = [id \in GaugeIds(serverType) |-> [num |-> 0, den |-> 1]]
    /\ cpc = [c \in Cycles |-> "idle"]
    /\ spc = [c \in Cycles |-> "idle"]
    /\ err = [c \in Cycles |-> FALSE]
    /\ data = [c \in Cycles |-> << >>]
    /\ jsonStats = [c \in Cycles |-> "closed"]
    /\ statsMap = [c \in Cycles |-> << >>]
    /\ ch = [c \in Cycles |-> EmptyBag]
    /\ cycleFailures = [c \in Cycles |-> 0]
    /\ started = 0

\* ------------------------------------------------------------------ Collect
\* Collect: make(chan []StatsEntry); go e.scrape(jsonStats).
CollectStart(c, maxScrapes) ==
    /\ cpc[c] \in {"idle", "done"}
    /\ spc[c] = "idle"
    /\ started < maxScrapes
    /\ started' = started + 1
    /\ cpc' = [cpc EXCEPT ![c] = "lock"]
    /\ spc' = [spc EXCEPT ![c] = "inc"]
    /\ err' = [err EXCEPT ![c] = FALSE]
    /\ data' = [data EXCEPT ![c] = << >>]
    /\ jsonStats' = [jsonStats EXCEPT ![c] = "open"]
    /\ statsMap' = [statsMap EXCEPT ![c] = << >>]
    /\ ch' = [ch EXCEPT ![c] = EmptyBag]
    /\ cycleFailures' = [cycleFailures EXCEPT ![c] = 0]
    /\ UNCHANGED << serverType, mutex, shared >>

\* Lock that does not wait for the holder to unlock.
CollectLockNoWait(c) ==
    /\ cpc[c] = "lock"
    /\ mutex' = c
    /\ cpc' = [cpc EXCEPT ![c] = "sendUp"]
    /\ UNCHANGED << serverType, up, totalScrapes, jsonParseFailures, gaugeMetrics,
                    spc, err, data, jsonStats, statsMap, ch, cycleFailures,
                    started >>

\* Collect: e.mutex.Lock().
CollectLock(c) ==
    /\ cpc[c] = "lock"
    /\ mutex = NoCycle
    /\ mutex' = c
    /\ cpc' = [cpc EXCEPT ![c] = "sendUp"]
    /\ UNCHANGED << serverType, shared, spc, err, data, jsonStats, statsMap, ch,
                    cycleFailures, started >>

\* A send of metric m on ch by cycle c, moving Collect from position at to next.
Send(c, at, m, next) ==
    /\ cpc[c] = at
    /\ ch' = [ch EXCEPT ![c] = ch[c] (+) SetToBag({m})]
    /\ cpc' = [cpc EXCEPT ![c] = next]
    /\ UNCHANGED << serverType, mutex, shared, spc, err, data, jsonStats, statsMap,
                    cycleFailures, started >>

\* Collect: ch <- e.up
CollectSendUp(c) == Send(c, "sendUp", upMetric, "sendTotalScrapes")

\* Collect: ch <- e.totalScrapes
CollectSendTotalScrapes(c) ==
    Send(c, "sendTotalScrapes", totalScrapesMetric, "sendJsonParseFailures")

\* Collect going on to collectMetrics without sending e.jsonParseFailures.
CollectSkipJsonParseFailures(c) ==
    /\ cpc[c] = "sendJsonParseFailures"
    /\ cpc' = [cpc EXCEPT ![c] = "collectMetrics"]
    /\ UNCHANGED << serverType, mutex, up, totalScrapes, jsonParseFailures,
                    gaugeMetrics, spc, err, data, jsonStats, statsMap, ch,
                    cycleFailures, started >>

\* Collect: ch <- e.jsonParseFailures
CollectSendJsonParseFailures(c) ==
    Send(c, "sendJsonParseFailures", jsonParseFailuresMetric, "collectMetrics")

\* collectMetrics building the histogram whatever the server type.
collectMetricsAnyType(c, stats) ==
    \E sm \in { StatsMapOf(stats) } :
    LET g  == GaugeLoop(GaugeDefsOf(serverType), 1, sm, gaugeMetrics, 0)
        cm == NewCounterMetrics(CounterDefsOf(serverType))
        k  == CounterLoop(CounterDefsOf(serverType), cm, 1, sm, EmptyBag, 0)
        hr == makeRecursorRTimeHistogram(sm)
        hs == IF ~hr.err THEN SetToBag({hr.h}) ELSE EmptyBag
    IN  /\ statsMap' = [statsMap EXCEPT ![c] = sm]
        /\ cpc' = [cpc EXCEPT ![c] = "unlock"]
        /\ IF IsEmptyStatsMap(sm)
           THEN UNCHANGED << gaugeMetrics, jsonParseFailures, cycleFailures, ch >>
           ELSE /\ gaugeMetrics' = g.gauges
                /\ jsonParseFailures' = jsonParseFailures + g.fails + k.fails
                /\ cycleFailures' =
                       [cycleFailures EXCEPT ![c] = @ + g.fails + k.fails]
                /\ ch' = [ch EXCEPT ![c] = (ch[c] (+) k.sent) (+) hs]
        /\ UNCHANGED << serverType, mutex, up, totalScrapes, err, data, jsonStats,
                        started >>

\* collectMetrics of an exporter that stays bad once a parse failure was
\* counted: it builds the gauges but sends no series from then on.
collectMetricsAfterFailure(c, stats) ==
    \E sm \in { StatsMapOf(stats) } :
    LET g  == GaugeLoop(GaugeDefsOf(serverType), 1, sm, gaugeMetrics, 0)
        cm == NewCounterMetrics(CounterDefsOf(serverType))
        k  == CounterLoop(CounterDefsOf(serverType), cm, 1, sm, EmptyBag, 0)
        hr == makeRecursorRTimeHistogram(sm)
        hs == IF serverType = "recursor" /\ ~hr.err
              THEN SetToBag({hr.h}) ELSE EmptyBag
    IN  /\ statsMap' = [statsMap EXCEPT ![c] = sm]
        /\ cpc' = [cpc EXCEPT ![c] = "unlock"]
        /\ IF IsEmptyStatsMap(sm)
           THEN UNCHANGED << gaugeMetrics, jsonParseFailures, cycleFailures, ch >>
           ELSE /\ gaugeMetrics' = g.gauges
                /\ jsonParseFailures' = jsonParseFailures + g.fails + k.fails
                /\ cycleFailures' =
                       [cycleFailures EXCEPT ![c] = @ + g.fails + k.fails]
                /\ ch' = [ch EXCEPT ![c] =
                             IF jsonParseFailures = 0
                             THEN (ch[c] (+) k.sent) (+) hs ELSE ch[c]]
        /\ UNCHANGED << serverType, mutex, up, totalScrapes, err, data, jsonStats,
                        started >>

\* collectMetrics once stats has been received from jsonStats: the statsMap,
\* the early return on an empty map, the gauge loop, the counter loop and,
\* for a recursor, the histogram.
collectMetrics(c, stats) ==
    \E sm \in { StatsMapOf(stats) } :
    LET g  == GaugeLoop(GaugeDefsOf(serverType), 1, sm, gaugeMetrics, 0)
        cm == NewCounterMetrics(CounterDefsOf(serverType))
        k  == CounterLoop(CounterDefsOf(serverType), cm, 1, sm, EmptyBag, 0)
        hr == makeRecursorRTimeHistogram(sm)
        hs == IF serverType = "recursor" /\ ~hr.err
              THEN SetToBag({hr.h}) ELSE EmptyBag
    IN  /\ statsMap' = [statsMap EXCEPT ![c] = sm]
        /\ cpc' = [cpc EXCEPT ![c] = "unlock"]
        /\ IF IsEmptyStatsMap(sm)
           THEN UNCHANGED << gaugeMetrics, jsonParseFailures, cycleFailures, ch >>
           ELSE /\ gaugeMetrics' = g.gauges
                /\ jsonParseFailures' = jsonParseFailures + g.fails + k.fails
                /\ cycleFailures' =
                       [cycleFailures EXCEPT ![c] = @ + g.fails + k.fails]
                /\ ch' = [ch EXCEPT ![c] = (ch[c] (+) k.sent) (+) hs]
        /\ UNCHANGED << serverType, mutex, up, totalScrapes, err, data, jsonStats,
                        started >>

\* collectMetrics: stats := <-jsonStats meets the send of the cycle's scrape.
CollectMetricsRecv(c) ==
    /\ cpc[c] = "collectMetrics"
    /\ spc[c] = "send"
    /\ spc' = [spc EXCEPT ![c] = "close"]
    /\ collectMetrics(c, data[c])

\* collectMetrics taking a closed channel's nil without waiting for scrape.
CollectMetricsNoWait(c) ==
    /\ cpc[c] = "collectMetrics"
    /\ UNCHANGED spc
    /\ collectMetrics(c, << >>)

\* collectMetrics: stats := <-jsonStats on the closed channel yields nil.
CollectMetricsClosed(c) ==
    /\ cpc[c] = "collectMetrics"
    /\ jsonStats[c] = "closed"
    /\ UNCHANGED spc
    /\ collectMetrics(c, << >>)

\* Collect returns: the deferred e.mutex.Unlock().
CollectUnlock(c) ==
    /\ cpc[c] = "unlock"
    /\ mutex' = NoCycle
    /\ cpc' = [cpc EXCEPT ![c] = "done"]
    /\ UNCHANGED << serverType, shared, spc, err, data, jsonStats, statsMap, ch,
                    cycleFailures, started >>

\* ------------------------------------------------------------------- scrape
\* scrape: e.totalScrapes.Inc()
ScrapeInc(c) ==
    /\ spc[c] = "inc"
    /\ totalScrapes' = totalScrapes + 1
    /\ spc' = [spc EXCEPT ![c] = "getJSON"]
    /\ UNCHANGED << serverType, mutex, up, jsonParseFailures, gaugeMetrics, cpc,
                    err, data, jsonStats, statsMap, ch, cycleFailures, started >>

\* The error path of scrape without e.up.Set(0).
ScrapeFetchErrKeepsUp(c) ==
    /\ spc[c] = "getJSON"
    /\ err' = [err EXCEPT ![c] = TRUE]
    /\ spc' = [spc EXCEPT ![c] = "incFailures"]
    /\ UNCHANGED << serverType, mutex, up, totalScrapes, jsonParseFailures,
                    gaugeMetrics, cpc, data, jsonStats, statsMap, ch,
                    cycleFailures, started >>

\* scrape: getJSON returns an error; e.up.Set(0)
ScrapeFetchErr(c) ==
    /\ spc[c] = "getJSON"
    /\ err' = [err EXCEPT ![c] = TRUE]
    /\ up' = 0
    /\ spc' = [spc EXCEPT ![c] = "incFailures"]
    /\ UNCHANGED << serverType, mutex, totalScrapes, jsonParseFailures,
                    gaugeMetrics, cpc, data, jsonStats, statsMap, ch,
                    cycleFailures, started >>

\* The error path of scrape returning without closing jsonStats.
ScrapeIncFailuresNoClose(c) ==
    /\ spc[c] = "incFailures"
    /\ jsonParseFailures' = jsonParseFailures + 1
    /\ cycleFailures' = [cycleFailures EXCEPT ![c] = @ + 1]
    /\ spc' = [spc EXCEPT ![c] = "idle"]
    /\ UNCHANGED << serverType, mutex, up, totalScrapes, gaugeMetrics, cpc, err,
                    data, jsonStats, statsMap, ch, started >>

\* scrape: e.jsonParseFailures.Inc() on the error path, then return
ScrapeIncFailures(c) ==
    /\ spc[c] = "incFailures"
    /\ jsonParseFailures' = jsonParseFailures + 1
    /\ cycleFailures' = [cycleFailures EXCEPT ![c] = @ + 1]
    /\ spc' = [spc EXCEPT ![c] = "close"]
    /\ UNCHANGED << serverType, mutex, up, totalScrapes, gaugeMetrics, cpc, err,
                    data, jsonStats, statsMap, ch, started >>

\* scrape: getJSON decodes stats; e.up.Set(1); then blocks on jsonStats <- data
ScrapeFetchOk(c, responses) ==
    /\ spc[c] = "getJSON"
    /\ \E stats \in responses : data' = [data EXCEPT ![c] = stats]
    /\ up' = 1
    /\ spc' = [spc EXCEPT ![c] = "send"]
    /\ UNCHANGED << serverType, mutex, totalScrapes, jsonParseFailures,
                    gaugeMetrics, cpc, err, jsonStats, statsMap, ch,
                    cycleFailures, started >>

\* scrape returns: the deferred close(jsonStats)
ScrapeClose(c) ==
    /\ spc[c] = "close"
    /\ jsonStats' = [jsonStats EXCEPT ![c] = "closed"]
    /\ data' = [data EXCEPT ![c] = << >>]
    /\ spc' = [spc EXCEPT ![c] = "idle"]
    /\ UNCHANGED << serverType, mutex, shared, cpc, err, statsMap, ch,
                    cycleFailures, started >>

\* ------------------------------------------------------------ specifications
\* Concurrent Collect calls on one Exporter; the API answers with an error,
\* an empty list or a complete response.
Next ==
    \E c \in Cycles :
        \/ CollectStart(c, MaxScrapes)
        \/ CollectLock(c)
        \/ CollectSendUp(c)
        \/ CollectSendTotalScrapes(c)
        \/ CollectSendJsonParseFailures(c)
        \/ CollectMetricsRecv(c)
        \/ CollectMetricsClosed(c)
        \/ CollectUnlock(c)
        \/ ScrapeInc(c)
        \/ ScrapeFetchErr(c)
        \/ ScrapeIncFailures(c)
        \/ ScrapeFetchOk(c, WholeInputs[serverType][started])
        \/ ScrapeClose(c)

Spec == Init /\ [][Next]_vars

\* The scheduling the claims on termination assume: a goroutine that can take
\* a step does so in the end, getJSON returns and the consumer of ch keeps
\* reading. When Collect is called is up to the caller. Each goroutine is
\* sequential, so its steps share one fairness condition; the rendezvous on
\* jsonStats is a step of both and has its own, with its enabling condition
\* written out. Weak fairness is enough for e.mutex.Lock() because the number
\* of Collect calls is bounded; sync.Mutex guarantees more.
Fairness ==
    \A c \in Cycles :
        /\ WF_vars(CollectLock(c) \/ CollectSendUp(c) \/ CollectSendTotalScrapes(c)
                       \/ CollectSendJsonParseFailures(c)
                       \/ CollectMetricsClosed(c) \/ CollectUnlock(c))
        /\ \/ []<>~(cpc[c] = "collectMetrics" /\ spc[c] = "send")
           \/ []<><<CollectMetricsRecv(c)>>_vars
        /\ WF_vars(ScrapeInc(c) \/ ScrapeFetchErr(c)
                       \/ ScrapeFetchOk(c, WholeInputs[serverType][started])
                       \/ ScrapeIncFailures(c) \/ ScrapeClose(c))

SpecFair == Spec /\ Fairness

\* One Collect call after the other; the API answers with an error, an empty
\* list or any response lacking a run of at most MaxMissing statistics.
NextSeq ==
    \/ CollectStart(1, MaxScrapes)
    \/ CollectLock(1)
    \/ CollectSendUp(1)
    \/ CollectSendTotalScrapes(1)
    \/ CollectSendJsonParseFailures(1)
    \/ CollectMetricsRecv(1)
    \/ CollectMetricsClosed(1)
    \/ CollectUnlock(1)
    \/ ScrapeInc(1)
    \/ ScrapeFetchErr(1)
    \/ ScrapeIncFailures(1)
    \/ ScrapeFetchOk(1, StatsInputs[serverType][started])
    \/ ScrapeClose(1)

SpecSeq == Init /\ [][NextSeq]_vars

\* One Collect call on a recursor exporter; the API answers with an error or
\* any list of response-time slots with counts up to MaxCount.
InitHist == Init /\ serverType = "recursor"

NextHist ==
    \/ CollectStart(1, 1)
    \/ CollectLock(1)
    \/ CollectSendUp(1)
    \/ CollectSendTotalScrapes(1)
    \/ CollectSendJsonParseFailures(1)
    \/ CollectMetricsRecv(1)
    \/ CollectMetricsClosed(1)
    \/ CollectUnlock(1)
    \/ ScrapeInc(1)
    \/ ScrapeFetchErr(1)
    \/ ScrapeIncFailures(1)
    \/ ScrapeFetchOk(1, RTimeInputs)
    \/ ScrapeClose(1)

SpecHist == InitHist /\ [][NextHist]_vars

\* ------------------------------------------------------------------ claims
Housekeeping == { upMetric, totalScrapesMetric, jsonParseFailuresMetric }

HousekeepingOnly == SetToBag(Housekeeping)

Delivered(c) == BagToSet(ch[c])

\* The cycle's Collect call has returned.
Finished(c) == cpc[c] = "done"

FetchFailed(c) == Finished(c) /\ err[c]

FetchedEmpty(c) == Finished(c) /\ ~err[c] /\ DOMAIN statsMap[c] = {}

FetchedStats(c) == Finished(c) /\ ~err[c] /\ DOMAIN statsMap[c] # {}

Histograms(c) == { m \in Delivered(c) : m.kind = "histogram" }

RTimeKeys ==
    { "answers0-1", "answers1-10", "answers10-100", "answers100-1000",
      "answers-slow" }

\* Indices of the gauge definitions whose key the cycle's statsMap lacks.
AbsentGauges(sm) ==
    { i \in DOMAIN GaugeDefsOf(serverType) :
        GaugeDefsOf(serverType)[i].key \notin DOMAIN sm }

\* The labelMap entries <<d, key>> whose key the cycle's statsMap lacks.
AbsentEntries(sm) ==
    UNION { { <<d, key>> : key \in DOMAIN CounterDefsOf(serverType)[d].labelMap
                                   \ DOMAIN sm } :
            d \in DOMAIN CounterDefsOf(serverType) }

\* Gauge definition i is the last one to write its gauge instance.
LastWriter(i, sm) ==
    LET defs == GaugeDefsOf(serverType)
    IN  /\ i \notin AbsentGauges(sm)
        /\ \A j \in DOMAIN defs :
               (j > i /\ defs[j].id = defs[i].id) => j \in AbsentGauges(sm)

\* Every gauge holds the value its last writer set.
GaugesSet(sm, gm) ==
    LET defs == GaugeDefsOf(serverType)
    IN  \A i \in DOMAIN defs :
            LastWriter(i, sm) =>
                gm[defs[i].id] = GaugeValue(defs[i].key, sm[defs[i].key])

\* Every labelMap entry found in sm is in the bag b once, as a series with
\* the entry's label and the raw key's value.
CountersSent(sm, b) ==
    LET defs == CounterDefsOf(serverType)
    IN  \A d \in DOMAIN defs :
            \A key \in DOMAIN defs[d].labelMap \cap DOMAIN sm :
                CopiesIn(Metric("counter", defs[d].name, defs[d].labelMap[key],
                                sm[key], << >>, 0), b) = 1

\* C1: a cycle whose statistics fetch fails delivers exactly the three
\* housekeeping metrics, leaves up at 0 and increments jsonParseFailures once.
C1_FetchFailure ==
    \A c \in Cycles :
        FetchFailed(c) =>
            /\ ch[c] = HousekeepingOnly
            /\ up = 0
            /\ cycleFailures[c] = 1

\* A failed cycle following a cycle that succeeded without anomaly.
C1_Witness ==
    \E c \in Cycles :
        FetchFailed(c) /\ started = 2 /\ jsonParseFailures = 1 /\ up = 0

\* C2: a cycle with a successful non-empty fetch delivers, for every gauge
\* definition whose key is in the snapshot, a gauge observation of it.
C2_GaugesDelivered ==
    \A c \in Cycles :
        FetchedStats(c) =>
            \A i \in DOMAIN GaugeDefsOf(serverType) :
                GaugeDefsOf(serverType)[i].key \in DOMAIN statsMap[c] =>
                    \E m \in Delivered(c) :
                        m.kind = "gauge" /\ m.name = GaugeDefsOf(serverType)[i].name

\* C3: for every counter definition the series delivered are exactly one per
\* labelMap entry found in the snapshot, with the entry's label and the raw
\* key's value; every absent entry (and absent gauge key) counts one failure.
C3_CounterSeries ==
    \A c \in Cycles :
        FetchedStats(c) =>
            LET defs == CounterDefsOf(serverType)
                sm == statsMap[c]
            IN  /\ \A d \in DOMAIN defs :
                       Cardinality({ m \in Delivered(c) :
                                       m.kind = "counter" /\ m.name = defs[d].name })
                           = Cardinality(DOMAIN defs[d].labelMap \cap DOMAIN sm)
                /\ CountersSent(sm, ch[c])
                /\ cycleFailures[c] =
                       Cardinality(AbsentGauges(sm)) + Cardinality(AbsentEntries(sm))

\* The recursor snapshot with questions but without tcp-questions: one
\* series udp and one failure.
C3_Witness ==
    \E c \in Cycles :
        /\ FetchedStats(c)
        /\ serverType = "recursor"
        /\ "questions" \in DOMAIN statsMap[c]
        /\ "tcp-questions" \notin DOMAIN statsMap[c]
        /\ cycleFailures[c] = 1
        /\ { m \in Delivered(c) : m.name = "incoming_queries_total" }
               = { Metric("counter", "incoming_queries_total", "udp",
                          statsMap[c]["questions"], << >>, 0) }

\* C4: with all five response-time slots in the snapshot the histogram has
\* the four finite buckets .001, .01, .1 and 1, each holding the sum of the
\* raw counts of the buckets up to it, and its count is the sum of all five.
C4_Histogram ==
    \A c \in Cycles :
        (FetchedStats(c) /\ RTimeKeys \subseteq DOMAIN statsMap[c]) =>
            LET sm == statsMap[c]
                b1 == sm["answers0-1"]
                b10 == b1 + sm["answers1-10"]
                b100 == b10 + sm["answers10-100"]
                b1000 == b100 + sm["answers100-1000"]
            IN  /\ Cardinality(Histograms(c)) = 1
                /\ \A h \in Histograms(c) :
                       /\ CopiesIn(h, ch[c]) = 1
                       /\ DOMAIN h.buckets = {1, 10, 100, 1000}
                       /\ h.buckets[1] = b1
                       /\ h.buckets[10] = b10
                       /\ h.buckets[100] = b100
                       /\ h.buckets[1000] = b1000
                       /\ \A x, y \in DOMAIN h.buckets :
                              x <= y => h.buckets[x] <= h.buckets[y]
                       /\ h.count = b1000 + sm["answers-slow"]

\* Counts 2, 1, 0, 0 and 2 slow: buckets 2, 3, 3, 3 and count 5.
C4_Witness ==
    \E c \in Cycles :
        /\ FetchedStats(c)
        /\ statsMap[c] = [ k \in RTimeKeys |->
                             CASE k = "answers0-1" -> 2
                               [] k = "answers1-10" -> 1
                               [] k = "answers-slow" -> 2
                               [] OTHER -> 0 ]
        /\ \E h \in Histograms(c) :
               /\ h.buckets[1] = 2
               /\ h.buckets[1000] = 3
               /\ h.count = 5

\* C5: with a response-time slot missing no histogram is delivered, and the
\* gauges set and the counter series sent by the cycle stay.
C5_HistogramMissingKey ==
    \A c \in Cycles :
        (Finished(c) /\ ~(RTimeKeys \subseteq DOMAIN statsMap[c])) =>
            /\ Histograms(c) = {}
            /\ FetchedStats(c) =>
                   /\ GaugesSet(statsMap[c], gaugeMetrics)
                   /\ CountersSent(statsMap[c], ch[c])

\* A recursor cycle lacking answers-slow that set the latency gauge and sent
\* the questions series.
C5_Witness ==
    \E c \in Cycles :
        /\ FetchedStats(c)
        /\ serverType = "recursor"
        /\ "answers-slow" \notin DOMAIN statsMap[c]
        /\ "answers0-1" \in DOMAIN statsMap[c]
        /\ "qa_latency" \in DOMAIN statsMap[c]
        /\ gaugeMetrics[1] = [num |-> statsMap[c]["qa_latency"], den |-> 1000000]
        /\ \E m \in Delivered(c) : m.name = "incoming_queries_total"
        /\ Histograms(c) = {}

\* C6: a cycle whose fetch succeeds with an empty list leaves up at 1,
\* delivers only the housekeeping metrics and counts no failure.
C6_EmptySnapshot ==
    \A c \in Cycles :
        FetchedEmpty(c) =>
            /\ up = 1
            /\ ch[c] = HousekeepingOnly
            /\ cycleFailures[c] = 0

\* An empty cycle following a failed one on an exporter with definitions.
C6_Witness ==
    \E c \in Cycles :
        /\ FetchedEmpty(c)
        /\ serverType = "authoritative"
        /\ started = 2
        /\ jsonParseFailures = 1
        /\ up = 1

\* C7: every finished cycle has delivered each housekeeping metric once.
C7_HousekeepingOnce ==
    \A c \in Cycles :
        Finished(c) => \A m \in Housekeeping : CopiesIn(m, ch[c]) = 1

\* A cycle with missing keys that delivered series and the housekeeping.
C7_Witness ==
    \E c \in Cycles :
        /\ FetchedStats(c)
        /\ cycleFailures[c] > 0
        /\ BagCardinality(ch[c]) > 3
        /\ \A m \in Housekeeping : CopiesIn(m, ch[c]) = 1

\* The scrape goroutine of cycle c writes up, totalScrapes or
\* jsonParseFailures in this step.
ScrapeWrites(c) ==
    /\ spc[c] \in {"inc", "getJSON", "incFailures"}
    /\ spc'[c] # spc[c]

\* The Collect call of cycle c writes gauges or jsonParseFailures in this step.
CollectWrites(c) == cpc[c] = "collectMetrics" /\ cpc'[c] # cpc[c]

\* C8: every write of a cycle to the shared state is made while that cycle
\* holds the mutex.
C8_WritesUnderLock ==
    [][ \A c \in Cycles : (ScrapeWrites(c) \/ CollectWrites(c)) => mutex = c ]_vars

InDelivery(c) ==
    cpc[c] \in { "sendUp", "sendTotalScrapes", "sendJsonParseFailures",
                 "collectMetrics", "unlock" }

\* C9: at most one cycle is in its delivery section, it holds the mutex, and
\* a cycle waiting for the mutex has delivered nothing.
C9_OneDeliverer ==
    /\ \A c, d \in Cycles : (InDelivery(c) /\ InDelivery(d)) => c = d
    /\ \A c \in Cycles : InDelivery(c) => mutex = c
    /\ \A c \in Cycles : cpc[c] = "lock" => ch[c] = EmptyBag

\* One cycle is delivering while another, its fetch done, waits for the mutex.
C9_Witness ==
    \E c, d \in Cycles :
        /\ c # d
        /\ cpc[c] = "collectMetrics"
        /\ BagCardinality(ch[c]) = 3
        /\ cpc[d] = "lock"
        /\ spc[d] = "send"

MissingRTimeKeys(c) == RTimeKeys \ DOMAIN statsMap[c]

\* C11: a recursor cycle whose non-empty snapshot lacks response-time slots
\* delivers no histogram and has incremented jsonParseFailures at least once
\* for every slot it lacks.
C11_HistogramKeyCounted ==
    \A c \in Cycles :
        (FetchedStats(c) /\ serverType = "recursor" /\ MissingRTimeKeys(c) # {}) =>
            /\ Histograms(c) = {}
            /\ cycleFailures[c] >= Cardinality(MissingRTimeKeys(c))
            /\ jsonParseFailures >= cycleFailures[c]

\* A recursor cycle lacking nothing but answers-slow: no histogram, one
\* failure counted.
C11_Witness ==
    \E c \in Cycles :
        /\ FetchedStats(c)
        /\ serverType = "recursor"
        /\ MissingRTimeKeys(c) = {"answers-slow"}
        /\ AbsentGauges(statsMap[c]) = {}
        /\ AbsentEntries(statsMap[c]) = { <<5, "answers-slow">> }
        /\ Histograms(c) = {}
        /\ cycleFailures[c] = 1

\* The value the claim expects a gauge definition of the given key to record
\* for the raw value: seconds for the two latency keys, the raw value else.
ExpectedGauge(key, raw) ==
    IF key \in {"qa_latency", "latency"}
    THEN [num |-> raw, den |-> 1000000]
    ELSE [num |-> raw, den |-> 1]

\* The gauge instance of definition i right after the gauge loop has
\* processed definitions 1..i, starting from the gauges gm.
GaugeAfter(i, sm, gm) ==
    LET defs == GaugeDefsOf(serverType)
    IN  GaugeLoop(SubSeq(defs, 1, i), 1, sm, gm, 0).gauges[defs[i].id]

\* C12: in collectMetrics on a non-empty snapshot every gauge definition
\* whose key is present records the raw value over 1,000,000 when the key
\* ends in latency and the raw value itself otherwise, and the gauge holds
\* that value when collectMetrics returns unless a later definition wrote it.
C12_LatencySeconds ==
    [][ \A c \in Cycles :
          (CollectWrites(c) /\ DOMAIN statsMap'[c] # {}) =>
              LET sm == statsMap'[c]
                  defs == GaugeDefsOf(serverType)
              IN  \A i \in DOMAIN defs :
                      defs[i].key \in DOMAIN sm =>
                          /\ GaugeAfter(i, sm, gaugeMetrics)
                                 = ExpectedGauge(defs[i].key, sm[defs[i].key])
                          /\ LastWriter(i, sm) =>
                                 gaugeMetrics'[defs[i].id]
                                     = ExpectedGauge(defs[i].key, sm[defs[i].key])
      ]_vars

\* A recursor cycle that recorded qa_latency in seconds and
\* concurrent_queries unchanged.
C12_Witness ==
    \E c \in Cycles :
        /\ FetchedStats(c)
        /\ serverType = "recursor"
        /\ {"qa_latency", "concurrent_queries"} \subseteq DOMAIN statsMap[c]
        /\ statsMap[c]["qa_latency"] > 0
        /\ gaugeMetrics[1] = [num |-> statsMap[c]["qa_latency"], den |-> 1000000]
        /\ gaugeMetrics[2] = [num |-> statsMap[c]["concurrent_queries"], den |-> 1]

\* C13: a finished cycle has delivered a histogram, and then exactly one,
\* if and only if the exporter is a recursor, the fetch succeeded and the
\* snapshot holds all five response-time slots; a cycle of any other variant
\* holds no histogram at any moment.
C13_HistogramIffRecursor ==
    \A c \in Cycles :
        /\ Finished(c) =>
               /\ (Histograms(c) # {}) <=>
                      /\ serverType = "recursor"
                      /\ ~err[c]
                      /\ DOMAIN statsMap[c] # {}
                      /\ RTimeKeys \subseteq DOMAIN statsMap[c]
               /\ Cardinality(Histograms(c)) <= 1
               /\ \A h \in Histograms(c) : CopiesIn(h, ch[c]) = 1
        /\ serverType # "recursor" => Histograms(c) = {}

\* An authoritative cycle whose snapshot holds all five response-time slots
\* and that delivered counter series but no histogram.
C13_Witness ==
    \E c \in Cycles :
        /\ FetchedStats(c)
        /\ serverType = "authoritative"
        /\ RTimeKeys \subseteq DOMAIN statsMap[c]
        /\ BagCardinality(ch[c]) > 3
        /\ Histograms(c) = {}

\* Collect of cycle c has returned and released the mutex, its scrape
\* goroutine has returned and closed jsonStats.
Completed(c) ==
    /\ cpc[c] = "done"
    /\ spc[c] = "idle"
    /\ jsonStats[c] = "closed"
    /\ mutex # c

\* C14: under fair scheduling every started cycle runs to completion: Collect
\* returns with the mutex released and the scrape goroutine ends with
\* jsonStats closed.
C14_CycleCompletes ==
    \A c \in Cycles : (cpc[c] = "lock") ~> Completed(c)

\* Two concurrent cycles, one whose fetch failed and one that delivered
\* series, both completed.
C14_Witness ==
    \E c, d \in Cycles :
        /\ c # d
        /\ Completed(c) /\ Completed(d)
        /\ started = 2
        /\ err[c]
        /\ ~err[d] /\ BagCardinality(ch[d]) > 3
        /\ mutex = NoCycle


\* The counter series and the histogram the cycle sent, with their copies.
NonHousekeeping(c) ==
    [ m \in Delivered(c) \ Housekeeping |-> CopiesIn(m, ch[c]) ]

\* What collectMetrics of a newly made exporter of type t sends for stats.
ObservationsOf(t, stats) ==
    LET sm == StatsMapOf(stats)
        hr == makeRecursorRTimeHistogram(sm)
    IN  IF IsEmptyStatsMap(sm) THEN EmptyBag
        ELSE CounterLoop(CounterDefsOf(t), NewCounterMetrics(CounterDefsOf(t)),
                         1, sm, EmptyBag, 0).sent
             (+) (IF t = "recursor" /\ ~hr.err THEN SetToBag({hr.h})
                  ELSE EmptyBag)

\* The result of the fetch that collectMetrics of cycle c is about to receive:
\* the decoded list scrape sends, or nothing when scrape failed and closed.
FetchResult(c) == IF spc[c] = "send" THEN data[c] ELSE << >>

\* C15: apart from the housekeeping metrics, what a cycle delivers is a
\* function of the exporter's type and the cycle's own fetch result only: it
\* is what a newly made exporter of that type delivers for that result,
\* whatever cycles ran or failed before or beside it, and it is what every
\* finished cycle with the same snapshot delivered.
C15_IndependentOfHistory ==
    [][ \A c \in Cycles :
            (cpc[c] = "collectMetrics" /\ cpc'[c] # "collectMetrics") =>
                /\ NonHousekeeping(c)' = ObservationsOf(serverType, FetchResult(c))
                /\ \A d \in Cycles \ {c} :
                       (Finished(d) /\ statsMap[d] = StatsMapOf(FetchResult(c))) =>
                           NonHousekeeping(d) = NonHousekeeping(c)' ]_vars

\* Two cycles fetched the same statistics; the second built its metrics on
\* gauges the first had set, and both delivered the same series.
C15_Witness ==
    \E c, d \in Cycles :
        /\ c # d
        /\ FetchedStats(c) /\ FetchedStats(d)
        /\ statsMap[c] = statsMap[d]
        /\ NonHousekeeping(c) # EmptyBag
        /\ NonHousekeeping(c) = NonHousekeeping(d)
        /\ gaugeMetrics # [id \in GaugeIds(serverType) |-> [num |-> 0, den |-> 1]]

\* Cycle c sends a metric on ch in this step.
Delivers(c) == ch'[c] # ch[c] /\ cpc[c] # "idle" /\ cpc[c] # "done"

\* Cycle c's scrape has made its e.totalScrapes.Inc().
Counted(c) == spc[c] # "inc"

\* C16: a cycle increments totalScrapes before its fetch and before it
\* delivers anything, so the value read on delivery of the cycle's
\* housekeeping metrics counts that cycle: no step of a cycle that returns from
\* getJSON or sends on ch is taken before the cycle's increment.
C16_CountedBeforeDelivery ==
    [][ \A c \in Cycles :
            /\ (spc[c] = "getJSON" /\ spc'[c] # "getJSON") => Counted(c)
            /\ Delivers(c) => Counted(c) ]_vars

\* Cycle c's getJSON has returned and scrape has set up to its outcome.
FetchDone(c) == spc[c] \notin { "inc", "getJSON" }

\* C17: the up value read when a cycle's up metric is delivered is that
\* cycle's fetch outcome: at the send of e.up the cycle's fetch is over and
\* up is 0 if it failed, 1 if it succeeded.
C17_UpOfOwnFetch ==
    [][ \A c \in Cycles :
            (cpc[c] = "sendUp" /\ cpc'[c] # "sendUp") =>
                /\ FetchDone(c)
                /\ up = IF err[c] THEN 0 ELSE 1 ]_vars

\* Cycle c's collectMetrics gets past its receive from jsonStats in this step.
Builds(c) == cpc[c] = "collectMetrics" /\ cpc'[c] # "collectMetrics"

\* In this step scrape of cycle c hands its statistics over on jsonStats.
HandsOver(c) == FetchDone(c) /\ spc[c] = "send" /\ spc'[c] = "close"

\* C18: a cycle's collectMetrics blocks on the fetch result: it gets past the
\* receive only in the step its own scrape hands the statistics over or with
\* the channel closed, the statsMap it uses is made of that result, and gauges
\* are set and series delivered only in such a step.
C18_BlocksOnFetch ==
    [][ /\ \A c \in Cycles :
               Builds(c) =>
                   /\ HandsOver(c) \/ jsonStats[c] = "closed"
                   /\ statsMap'[c] = StatsMapOf(FetchResult(c))
        /\ \A c \in Cycles :
               (NonHousekeeping(c)' # NonHousekeeping(c) /\ ch'[c] # EmptyBag) =>
                   Builds(c)
        /\ gaugeMetrics' # gaugeMetrics => \E c \in Cycles : Builds(c) ]_vars

\* One cycle built its series from the statistics handed over to it while
\* another, its housekeeping metrics sent, waits for its fetch to return.
C18_Witness ==
    \E c, d \in Cycles :
        /\ FetchedStats(c) /\ NonHousekeeping(c) # EmptyBag
        /\ cpc[d] = "collectMetrics" /\ spc[d] = "getJSON"
        /\ ch[d] = HousekeepingOnly
        /\ mutex = d

\* Cycle c's scrape is between its start and the end of its writes to
\* totalScrapes, up and jsonParseFailures: its fetch is in progress.
InFetch(c) == spc[c] \in { "inc", "getJSON", "incFailures" }

\* C19: no cycle's fetch, its writes to up, totalScrapes and
\* jsonParseFailures included, is in progress while another cycle is in its
\* build and delivery section.
C19_NoFetchDuringDelivery ==
    \A c, d \in Cycles : (c # d /\ InFetch(c)) => ~InDelivery(d)

\* The gauge definitions of the exporter's type have pairwise distinct ids.
GaugeIdsDistinct ==
    LET defs == GaugeDefsOf(serverType)
    IN  \A i, j \in DOMAIN defs : defs[i].id = defs[j].id => i = j

\* C20: the gauge definitions of a catalog have pairwise distinct ids, there
\* is one gauge instance per definition, and after collectMetrics ran on a
\* statsMap that holds every gauge key, the instance of each definition holds
\* the value of the definition's own key.
C20_GaugePerDefinition ==
    [][ \A c \in Cycles :
            LET defs == GaugeDefsOf(serverType)
            IN  (Builds(c) /\ statsMap'[c] # << >> /\ AbsentGauges(statsMap'[c]) = {}) =>
                    /\ GaugeIdsDistinct
                    /\ Cardinality(DOMAIN gaugeMetrics) = Len(defs)
                    /\ \A i \in DOMAIN defs :
                           gaugeMetrics'[defs[i].id] =
                               ExpectedGauge(defs[i].key, statsMap'[c][defs[i].key])
      ]_vars

\* The descriptor name of the metrics cycle c has sent on ch.
DeliveredDescs(c) == { m.name : m \in Delivered(c) }

\* The cycle's statsMap holds every key the catalog of the type asks for.
CompleteSnapshot(c) ==
    /\ FetchedStats(c)
    /\ AbsentGauges(statsMap[c]) = {}
    /\ AbsentEntries(statsMap[c]) = {}
    /\ RTimeKeys \subseteq DOMAIN statsMap[c]

\* C21: Describe and Collect agree: every metric a cycle delivers has a
\* descriptor that Describe produces, and every descriptor Describe produces
\* is that of a metric a cycle with a complete snapshot delivers.
C21_DescribeMatchesCollect ==
    \A c \in Cycles :
        /\ DeliveredDescs(c) \subseteq Describe(serverType)
        /\ (Finished(c) /\ CompleteSnapshot(c)) =>
               Describe(serverType) \subseteq DeliveredDescs(c)
=============================================================================
